---- MODULE Spec2Model ----
(***************************************************************************)
(* The max-tokens input of ChatbotConfigurationTableRow: the component's   *)
(* three pieces of local state, the effect that syncs the text with the    *)
(* maxTokens prop, and the change handler that validates the text and      *)
(* calls onMaxTokensChange.                                                *)
(*                                                                         *)
(* A JavaScript string is a sequence of one-character strings.  A value of *)
(* type number | undefined, and the result of parseInt, is a record:       *)
(* Number(n), Undefined or NaN.                                            *)
(***************************************************************************)
EXTENDS Integers, Sequences, FiniteSets, TLC

VARIABLES
    maxTokens,            \* the maxTokens prop the parent currently passes
    maxTokensValue,       \* useState: the text of the input
    maxTokensValidated,   \* useState: 'default' | 'success' | 'warning' | 'error'
    maxTokensHelperText,  \* useState: the helper text under the input
    notifications,        \* every call of the onMaxTokensChange prop so far, in order
    edits,                \* every text the change handler was called with, in order
    lastOp                \* what ran last: "init", "onChange" or "sync"

vars == <<maxTokens, maxTokensValue, maxTokensValidated, maxTokensHelperText,
          notifications, edits, lastOp>>

\* ------------------------------------------------------------------ bounds

\* Number of handler calls in one behaviour.
MaxEdits == 3

\* Longest text of the exhaustive single-edit specification.
MaxLen == 4

\* ------------------------------------------------------------------ values

Undefined == [kind |-> "undefined"]

NaN == [kind |-> "NaN"]

Number(n) == [kind |-> "number", n |-> n]

\* The literals of the range checks in the handler.
MinTokens == 128

MaxTokens == 128000

DigitChars == {"0", "1", "2", "3", "4", "5", "6", "7", "8", "9"}

DigitVal == [c \in DigitChars |->
    CASE c = "0" -> 0 [] c = "1" -> 1 [] c = "2" -> 2 [] c = "3" -> 3
      [] c = "4" -> 4 [] c = "5" -> 5 [] c = "6" -> 6 [] c = "7" -> 7
      [] c = "8" -> 8 [] c = "9" -> 9]

DigitChar == [d \in 0..9 |-> CHOOSE c \in DigitChars : DigitVal[c] = d]

\* The white space parseInt strips (the one such character of the alphabet).
WhiteSpace == {" "}

\* ------------------------------------------------------------- parseInt

\* parseInt step: remove the leading white space.
RECURSIVE TrimStart(_)
TrimStart(s) ==
    IF s # <<>> /\ Head(s) \in WhiteSpace THEN TrimStart(Tail(s)) ELSE s

\* parseInt step: the text after an optional sign character.
StripSign(s) ==
    IF s # <<>> /\ Head(s) \in {"+", "-"} THEN Tail(s) ELSE s

\* parseInt step: the sign of the result.
SignOf(s) ==
    IF s # <<>> /\ Head(s) = "-" THEN -1 ELSE 1

\* parseInt step: the text up to the first character that is not a radix-10 digit.
RECURSIVE DigitPrefix(_)
DigitPrefix(s) ==
    IF s # <<>> /\ Head(s) \in DigitChars
    THEN <<Head(s)>> \o DigitPrefix(Tail(s))
    ELSE <<>>

\* parseInt step: the integer a digit text denotes.
RECURSIVE MathInt(_)
MathInt(z) ==
    IF z = <<>> THEN 0
    ELSE 10 * MathInt(SubSeq(z, 1, Len(z) - 1)) + DigitVal[z[Len(z)]]

\* parseInt as a whole-string conversion: a text with anything after its digits
\* is not a number.
parseInt_WholeString(value) ==
    LET S == TrimStart(value)
        Z == DigitPrefix(StripSign(S))
    IN  IF Z = <<>> \/ Z # StripSign(S) THEN NaN ELSE Number(SignOf(S) * MathInt(Z))

\* parseInt(value, 10)
parseInt(value) ==
    LET S == TrimStart(value)
        Z == DigitPrefix(StripSign(S))
    IN  IF Z = <<>> THEN NaN ELSE Number(SignOf(S) * MathInt(Z))

\* ------------------------------------------------------------- toString

RECURSIVE NatToString(_)
NatToString(n) ==
    IF n < 10 THEN <<DigitChar[n]>>
    ELSE NatToString(n \div 10) \o <<DigitChar[n % 10]>>

\* Number.prototype.toString() of an integer
toString(n) ==
    IF n < 0 THEN <<"-">> \o NatToString(-n) ELSE NatToString(n)

\* maxTokens?.toString() || ''
MaxTokensText(prop) ==
    IF prop = Undefined THEN <<>>
    ELSE toString(prop.n)

\* ------------------------------------------------------------- inputs

\* The texts typed into the input: one or more of each outcome of the handler,
\* the two limits and their neighbours, and texts parseInt reads only in part.
Inputs == {
    <<>>,
    <<"a", "b", "c">>,
    <<"-">>,
    <<"6", "4">>,
    <<"1", "2", "7">>,
    <<"1", "2", "8">>,
    <<"4", "0", "9", "6">>,
    <<"1", "2", "8", "0", "0", "0">>,
    <<"1", "2", "8", "0", "0", "1">>,
    <<"-", "2", "0", "0">>,
    <<"1", "2", "8", "a", "b", "c">>,
    <<" ", "8", "1", "9", "2">> }

\* The characters of the exhaustive single-edit specification.
Alphabet == {"0", "1", "2", "8", "-", "+", " ", "a"}

\* Every text over Alphabet of at most MaxLen characters.
ShortStrings == UNION {[1..n -> Alphabet] : n \in 0..MaxLen}

\* The values a parent passes as maxTokens of its own accord.
PropValues == {Undefined, Number(4096), Number(8192), Number(128000)}

\* ------------------------------------------------------------- the component

\* Lines 32-36: the useState initializers, for the maxTokens the row is mounted with.
Init ==
    /\ maxTokens \in PropValues
    /\ maxTokensValue = MaxTokensText(maxTokens)
    /\ maxTokensValidated = "default"
    /\ maxTokensHelperText = ""
    /\ notifications = <<>>
    /\ edits = <<>>
    /\ lastOp = "init"

\* The effect, were it to clear the validation state as well.
SyncWithPropChanges_ClearsValidation(newMaxTokens) ==
    /\ newMaxTokens # maxTokens
    /\ maxTokens' = newMaxTokens
    /\ maxTokensValue' = MaxTokensText(newMaxTokens)
    /\ maxTokensValidated' = "default"
    /\ maxTokensHelperText' = ""
    /\ lastOp' = "sync"
    /\ UNCHANGED <<notifications, edits>>

\* Lines 39-41: the parent re-renders the row with another maxTokens, and the
\* effect that depends on [maxTokens] runs.
SyncWithPropChanges(newMaxTokens) ==
    /\ newMaxTokens # maxTokens
    /\ maxTokens' = newMaxTokens
    /\ maxTokensValue' = MaxTokensText(newMaxTokens)
    /\ lastOp' = "sync"
    /\ UNCHANGED <<maxTokensValidated, maxTokensHelperText, notifications, edits>>

\* The handler, were it to pass a value below the minimum to the parent.
handleMaxTokensChange_NotifiesBelowMinimum(value) ==
    /\ Len(edits) < MaxEdits
    /\ edits' = Append(edits, value)
    /\ lastOp' = "onChange"
    /\ maxTokensValue' = value
    /\ UNCHANGED maxTokens
    /\ LET numValue == parseInt(value) IN
       IF value = <<>> THEN
            /\ maxTokensValidated' = "default"
            /\ maxTokensHelperText' = ""
            /\ notifications' = Append(notifications, Undefined)
       ELSE IF numValue = NaN THEN
            /\ maxTokensValidated' = "error"
            /\ maxTokensHelperText' = "Must be a valid number"
            /\ UNCHANGED notifications
       ELSE IF numValue.n < MinTokens THEN
            /\ maxTokensValidated' = "error"
            /\ maxTokensHelperText' = "Minimum: 128"
            /\ notifications' = Append(notifications, numValue)
       ELSE IF numValue.n > MaxTokens THEN
            /\ maxTokensValidated' = "error"
            /\ maxTokensHelperText' = "Maximum: 128,000"
            /\ UNCHANGED notifications
       ELSE
            /\ maxTokensValidated' = "success"
            /\ maxTokensHelperText' = ""
            /\ notifications' = Append(notifications, numValue)

\* The handler, were it to leave the text alone when it rejects the edit.
handleMaxTokensChange_KeepsTextOnError(value) ==
    /\ Len(edits) < MaxEdits
    /\ edits' = Append(edits, value)
    /\ lastOp' = "onChange"
    /\ maxTokensValue' =
          (IF value = <<>> \/ (parseInt(value) # NaN /\ parseInt(value).n >= MinTokens
                                /\ parseInt(value).n <= MaxTokens)
           THEN value ELSE maxTokensValue)
    /\ UNCHANGED maxTokens
    /\ LET numValue == parseInt(value) IN
       IF value = <<>> THEN
            /\ maxTokensValidated' = "default"
            /\ maxTokensHelperText' = ""
            /\ notifications' = Append(notifications, Undefined)
       ELSE IF numValue = NaN THEN
            /\ maxTokensValidated' = "error"
            /\ maxTokensHelperText' = "Must be a valid number"
            /\ UNCHANGED notifications
       ELSE IF numValue.n < MinTokens THEN
            /\ maxTokensValidated' = "error"
            /\ maxTokensHelperText' = "Minimum: 128"
            /\ UNCHANGED notifications
       ELSE IF numValue.n > MaxTokens THEN
            /\ maxTokensValidated' = "error"
            /\ maxTokensHelperText' = "Maximum: 128,000"
            /\ UNCHANGED notifications
       ELSE
            /\ maxTokensValidated' = "success"
            /\ maxTokensHelperText' = ""
            /\ notifications' = Append(notifications, numValue)

\* The handler, were an error state to keep the next accepted value from the parent.
handleMaxTokensChange_BlockedAfterError(value) ==
    /\ Len(edits) < MaxEdits
    /\ edits' = Append(edits, value)
    /\ lastOp' = "onChange"
    /\ maxTokensValue' = value
    /\ UNCHANGED maxTokens
    /\ LET numValue == parseInt(value) IN
       IF value = <<>> THEN
            /\ maxTokensValidated' = "default"
            /\ maxTokensHelperText' = ""
            /\ notifications' = Append(notifications, Undefined)
       ELSE IF numValue = NaN THEN
            /\ maxTokensValidated' = "error"
            /\ maxTokensHelperText' = "Must be a valid number"
            /\ UNCHANGED notifications
       ELSE IF numValue.n < MinTokens THEN
            /\ maxTokensValidated' = "error"
            /\ maxTokensHelperText' = "Minimum: 128"
            /\ UNCHANGED notifications
       ELSE IF numValue.n > MaxTokens THEN
            /\ maxTokensValidated' = "error"
            /\ maxTokensHelperText' = "Maximum: 128,000"
            /\ UNCHANGED notifications
       ELSE
            /\ maxTokensValidated' = "success"
            /\ maxTokensHelperText' = ""
            /\ notifications' = (IF maxTokensValidated = "error" THEN notifications
                                  ELSE Append(notifications, numValue))

\* The handler, were it to notify only when the accepted text differs from the text shown.
handleMaxTokensChange_SkipsUnchangedText(value) ==
    /\ Len(edits) < MaxEdits
    /\ edits' = Append(edits, value)
    /\ lastOp' = "onChange"
    /\ maxTokensValue' = value
    /\ UNCHANGED maxTokens
    /\ LET numValue == parseInt(value) IN
       IF value = <<>> THEN
            /\ maxTokensValidated' = "default"
            /\ maxTokensHelperText' = ""
            /\ notifications' = Append(notifications, Undefined)
       ELSE IF numValue = NaN THEN
            /\ maxTokensValidated' = "error"
            /\ maxTokensHelperText' = "Must be a valid number"
            /\ UNCHANGED notifications
       ELSE IF numValue.n < MinTokens THEN
            /\ maxTokensValidated' = "error"
            /\ maxTokensHelperText' = "Minimum: 128"
            /\ UNCHANGED notifications
       ELSE IF numValue.n > MaxTokens THEN
            /\ maxTokensValidated' = "error"
            /\ maxTokensHelperText' = "Maximum: 128,000"
            /\ UNCHANGED notifications
       ELSE
            /\ maxTokensValidated' = "success"
            /\ maxTokensHelperText' = ""
            /\ notifications' = (IF value = maxTokensValue THEN notifications
                                  ELSE Append(notifications, numValue))

\* The handler without its check of the maximum.
handleMaxTokensChange_NoMaximum(value) ==
    /\ Len(edits) < MaxEdits
    /\ edits' = Append(edits, value)
    /\ lastOp' = "onChange"
    /\ maxTokensValue' = value
    /\ UNCHANGED maxTokens
    /\ LET numValue == parseInt(value) IN
       IF value = <<>> THEN
            /\ maxTokensValidated' = "default"
            /\ maxTokensHelperText' = ""
            /\ notifications' = Append(notifications, Undefined)
       ELSE IF numValue = NaN THEN
            /\ maxTokensValidated' = "error"
            /\ maxTokensHelperText' = "Must be a valid number"
            /\ UNCHANGED notifications
       ELSE IF numValue.n < MinTokens THEN
            /\ maxTokensValidated' = "error"
            /\ maxTokensHelperText' = "Minimum: 128"
            /\ UNCHANGED notifications
       ELSE
            /\ maxTokensValidated' = "success"
            /\ maxTokensHelperText' = ""
            /\ notifications' = Append(notifications, numValue)

\* Lines 43-83: the onChange handler of the TextInput.
handleMaxTokensChange(value) ==
    /\ Len(edits) < MaxEdits
    /\ edits' = Append(edits, value)
    /\ lastOp' = "onChange"
    /\ maxTokensValue' = value
    /\ UNCHANGED maxTokens
    /\ LET numValue == parseInt(value) IN
       IF value = <<>> THEN
            /\ maxTokensValidated' = "default"
            /\ maxTokensHelperText' = ""
            /\ notifications' = Append(notifications, Undefined)
       ELSE IF numValue = NaN THEN
            /\ maxTokensValidated' = "error"
            /\ maxTokensHelperText' = "Must be a valid number"
            /\ UNCHANGED notifications
       ELSE IF numValue.n < MinTokens THEN
            /\ maxTokensValidated' = "error"
            /\ maxTokensHelperText' = "Minimum: 128"
            /\ UNCHANGED notifications
       ELSE IF numValue.n > MaxTokens THEN
            /\ maxTokensValidated' = "error"
            /\ maxTokensHelperText' = "Maximum: 128,000"
            /\ UNCHANGED notifications
       ELSE
            /\ maxTokensValidated' = "success"
            /\ maxTokensHelperText' = ""
            /\ notifications' = Append(notifications, numValue)

\* The values the parent may pass next: one of its own, or the value the
\* handler last gave it.
ParentValues ==
    PropValues \cup (IF notifications = <<>> THEN {}
                     ELSE {notifications[Len(notifications)]})

Next ==
    \/ \E value \in Inputs : handleMaxTokensChange(value)
    \/ \E newMaxTokens \in ParentValues : SyncWithPropChanges(newMaxTokens)

Spec == Init /\ [][Next]_vars

\* One edit of a freshly mounted row, for every short text.
NextParse ==
    /\ edits = <<>>
    /\ \E value \in ShortStrings \cup Inputs : handleMaxTokensChange(value)

SpecParse == Init /\ [][NextParse]_vars

\* ------------------------------------------------------------- the rules of the specification

Last(s) == s[Len(s)]

\* The number of leading characters of s that belong to set.
RunLength(s, set) ==
    CHOOSE k \in 0..Len(s) :
        /\ \A i \in 1..k : s[i] \in set
        /\ k < Len(s) => s[k + 1] \notin set

RECURSIVE PlaceSum(_, _)
PlaceSum(s, m) ==
    IF m = 0 THEN 0
    ELSE DigitVal[s[m]] + 10 * PlaceSum(s, m - 1)

\* "Parse leading integer": white space, an optional sign, then the longest run
\* of decimal digits; NaN when that run is empty.
LeadingInteger(t) ==
    LET rest   == SubSeq(t, RunLength(t, WhiteSpace) + 1, Len(t))
        signed == rest # <<>> /\ rest[1] \in {"+", "-"}
        body   == IF signed THEN SubSeq(rest, 2, Len(rest)) ELSE rest
        m      == RunLength(body, DigitChars)
        mag    == PlaceSum(body, m)
    IN  IF m = 0 THEN NaN
        ELSE Number(IF signed /\ rest[1] = "-" THEN 0 - mag ELSE mag)

\* Rules 1-6 of onChange: <<status, message>> for a text.
Rules(t) ==
    LET n == LeadingInteger(t) IN
    CASE t = <<>>                     -> <<"default", "">>
      [] t # <<>> /\ n = NaN          -> <<"error", "Must be a valid number">>
      [] n # NaN /\ n.n < 128         -> <<"error", "Minimum: 128">>
      [] n # NaN /\ n.n > 128000      -> <<"error", "Maximum: 128,000">>
      [] OTHER                        -> <<"success", "">>

\* The notifications one onChange(t) owes the collaborator: none, or one.
Owed(t) ==
    IF t = <<>> THEN <<Undefined>>
    ELSE IF Rules(t)[1] = "success" THEN <<LeadingInteger(t)>>
    ELSE <<>>

RECURSIVE OwedAll(_)
OwedAll(ts) ==
    IF ts = <<>> THEN <<>>
    ELSE OwedAll(SubSeq(ts, 1, Len(ts) - 1)) \o Owed(Last(ts))

InRange(v) == v # Undefined /\ v # NaN /\ v.n >= 128 /\ v.n <= 128000

\* The step is one call of the change handler.
IsEdit == lastOp' = "onChange" /\ Len(edits') = Len(edits) + 1

\* The step is one re-synchronization with a changed external value.
IsReset == maxTokens' # maxTokens

\* ------------------------------------------------------------- the claims

\* C1: one onChange(newText) calls onMaxTokensChange at most once: exactly once,
\* with undefined, when newText is empty, exactly once, with the parsed integer,
\* when the text is accepted, and not at all when it is rejected; the committed
\* value (the maxTokens prop) is the same after the edit.
C1_NotifyOnlyClearedOrAccepted ==
    [][IsEdit =>
        /\ notifications' = notifications \o Owed(Last(edits'))
        /\ Len(notifications') <= Len(notifications) + 1
        /\ maxTokens' = maxTokens]_vars

C1_Witness ==
    /\ lastOp = "onChange"
    /\ Len(edits) = 3
    /\ Rules(edits[1])[1] = "success"
    /\ Rules(edits[2])[1] = "error"
    /\ Rules(edits[3])[1] = "error"
    /\ notifications = <<Number(4096)>>
    /\ maxTokens = Number(4096)

\* C2: after onChange(newText), <<status, message>> is what the ordered rules
\* give for newText.
C2_StatusFollowsRules ==
    edits # <<>> =>
        <<maxTokensValidated, maxTokensHelperText>> = Rules(Last(edits))

C2_Witness ==
    /\ edits = << <<"1", "2", "8", "a">> >>
    /\ maxTokensValidated = "success"
    /\ maxTokensHelperText = ""

\* C3: in every reachable state, status and message are the values the rules
\* assign to the current text of the input.
C3_StatusIsFunctionOfText ==
    <<maxTokensValidated, maxTokensHelperText>> = Rules(maxTokensValue)

\* C4: onChange(newText) sets the text of the input to exactly newText, whether
\* the edit is cleared, accepted or rejected.
C4_EchoesText ==
    [][IsEdit => maxTokensValue' = Last(edits')]_vars

C4_Witness ==
    /\ lastOp = "onChange"
    /\ maxTokens = Number(4096)
    /\ maxTokensValue = <<"a", "b", "c">>
    /\ maxTokensValidated = "error"
    /\ notifications = <<>>

\* C5: when the external value changes, the text becomes the decimal string of
\* the new value (empty if absent), and status, message and the notifications
\* are left as they were.
C5_ResetOnlyOverwritesText ==
    [][IsReset =>
        /\ maxTokensValue' =
              (IF maxTokens' = Undefined THEN <<>> ELSE toString(maxTokens'.n))
        /\ UNCHANGED <<maxTokensValidated, maxTokensHelperText, notifications>>]_vars

C5_Witness ==
    /\ lastOp = "sync"
    /\ Len(edits) > 0
    /\ Last(edits) = <<"6", "4">>
    /\ maxTokens = Number(8192)
    /\ maxTokensValue = <<"8", "1", "9", "2">>
    /\ maxTokensHelperText = "Minimum: 128"

\* C6: before any onChange, status is Neutral when the row is constructed with
\* no value, and Accepted (with the value's decimal string as text) when it is
\* constructed with a value in [128, 128000].
C6_InitialStatus ==
    lastOp = "init" =>
        /\ maxTokens = Undefined => maxTokensValidated = "default"
        /\ InRange(maxTokens) =>
              /\ maxTokensValue = toString(maxTokens.n)
              /\ maxTokensValidated = "success"

\* C7: a re-synchronization with an in-range value v leaves the text at the
\* decimal string of v and status at Accepted, and notifies nobody.
C7_ResetRevalidates ==
    [][IsReset /\ InRange(maxTokens') =>
        /\ maxTokensValue' = toString(maxTokens'.n)
        /\ maxTokensValidated' = "success"
        /\ notifications' = notifications]_vars

\* C8: the notifications received so far are exactly those owed by the cleared
\* and accepted edits so far, in the order of the edits.
C8_NotificationsInEditOrder ==
    notifications = OwedAll(edits)

C8_Witness ==
    /\ Len(edits) = 3
    /\ Rules(edits[1])[1] = "error"
    /\ Rules(edits[2])[1] = "success"
    /\ Rules(edits[3])[1] = "default"
    /\ notifications = <<Number(128), Undefined>>

\* C9: onChange(t) right after onChange(t) leaves text, status and message as
\* they were, and, when t is accepted or empty, notifies again with the value
\* it notified the first time.
C9_RepeatedEdit ==
    [][(IsEdit /\ lastOp = "onChange" /\ edits # <<>> /\ Last(edits') = Last(edits)) =>
        /\ UNCHANGED <<maxTokensValue, maxTokensValidated, maxTokensHelperText>>
        /\ Owed(Last(edits)) # <<>> =>
              /\ notifications # <<>>
              /\ notifications' = Append(notifications, Last(notifications))]_vars

C9_Witness ==
    /\ lastOp = "onChange"
    /\ edits = << <<"1", "2", "8", "0", "0", "0">>, <<"1", "2", "8", "0", "0", "0">> >>
    /\ notifications = <<Number(128000), Number(128000)>>
    /\ maxTokens = Undefined

\* C10: every value ever passed to onMaxTokensChange is undefined or an integer
\* in [128, 128000].
C10_NotifiedValuesInRange ==
    \A i \in 1..Len(notifications) :
        notifications[i] = Undefined \/ InRange(notifications[i])

C10_Witness ==
    /\ Len(notifications) = 3
    /\ Number(128) \in {notifications[i] : i \in 1..3}
    /\ Number(128000) \in {notifications[i] : i \in 1..3}
    /\ Undefined \in {notifications[i] : i \in 1..3}

====
